---- MODULE Spec2Model ----
(* Model of the event-to-transfer pipeline of monitor_and_sync.py:          *)
(* GCodeHandler (syncing, syncing_lock, on_created / on_moved /             *)
(* on_modified, sync_file, _execute_rsync_with_retry, refresh_usb_gadget).  *)
(* Two threads call the handler's methods, one invocation after another on *)
(* each thread; the filesystem may change between any two steps.            *)
EXTENDS Integers, Sequences, FiniteSets, TLC

(***************************************************************************)
(* Bounds of the model                                                     *)
(***************************************************************************)
\* number of invocations of the handler's methods, over all threads
MaxCalls == 2
\* number of changes the environment makes to the watched file
MaxFsChanges == 1

\* the threads that call into the handler: the observer's dispatch thread and
\* one more caller
Threads == {1, 2}

(***************************************************************************)
(* Program constants                                                       *)
(***************************************************************************)
FILE_SETTLE_DELAY == 1
RSYNC_TIMEOUT == 60
RSYNC_TOTAL_TIMEOUT == 120
MAX_FILE_SIZE == 1024 * 1024 * 1024
WARN_FILE_SIZE == 500 * 1024 * 1024
MIN_FILE_SIZE == 1
RETRY_MAX_ATTEMPTS == 3
RETRY_INITIAL_DELAY == 2
RETRY_BACKOFF_MULTIPLIER == 2

(***************************************************************************)
(* Strings are sequences of one-character strings.                         *)
(***************************************************************************)
SEP == <<"/">>
GCODE == <<".", "g", "c", "o", "d", "e">>
WATCH_DIR == <<"/", "w">>
\* working directory of the process (os.getcwd(), used by os.path.abspath)
CWD == <<"/", "o">>

startswith(s, pre) ==
    /\ Len(pre) <= Len(s)
    /\ SubSeq(s, 1, Len(pre)) = pre

endswith(s, suf) ==
    /\ Len(suf) <= Len(s)
    /\ SubSeq(s, Len(s) - Len(suf) + 1, Len(s)) = suf

\* str.split('/'): the pieces between separators, empty pieces included
RECURSIVE split(_)
split(s) ==
    IF \A i \in 1..Len(s) : s[i] # "/"
    THEN <<s>>
    ELSE LET i == CHOOSE j \in 1..Len(s) :
                      s[j] = "/" /\ \A k \in 1..(j - 1) : s[k] # "/"
         IN  <<SubSeq(s, 1, i - 1)>> \o split(SubSeq(s, i + 1, Len(s)))

\* '/'.join(comps)
RECURSIVE join(_)
join(comps) ==
    IF comps = <<>> THEN <<>>
    ELSE IF Len(comps) = 1 THEN comps[1]
    ELSE comps[1] \o SEP \o join(Tail(comps))

\* the component loop of posixpath.normpath
RECURSIVE normcomps(_, _, _)
normcomps(comps, new_comps, initial_slashes) ==
    IF comps = <<>> THEN new_comps
    ELSE LET comp == Head(comps)
             n == Len(new_comps)
         IN  IF comp = <<>> \/ comp = <<".">>
             THEN normcomps(Tail(comps), new_comps, initial_slashes)
             ELSE IF \/ comp # <<".", ".">>
                     \/ (initial_slashes = 0 /\ n = 0)
                     \/ (n > 0 /\ new_comps[n] = <<".", ".">>)
             THEN normcomps(Tail(comps), Append(new_comps, comp), initial_slashes)
             ELSE IF n > 0
             THEN normcomps(Tail(comps), SubSeq(new_comps, 1, n - 1), initial_slashes)
             ELSE normcomps(Tail(comps), new_comps, initial_slashes)

\* posixpath.normpath
normpath(p) ==
    IF p = <<>> THEN <<".">>
    ELSE LET initial_slashes ==
                 IF ~startswith(p, SEP) THEN 0
                 ELSE IF startswith(p, SEP \o SEP) /\ ~startswith(p, SEP \o SEP \o SEP)
                 THEN 2 ELSE 1
             body == join(normcomps(split(p), <<>>, initial_slashes))
             res == IF initial_slashes = 2 THEN SEP \o SEP \o body
                    ELSE IF initial_slashes = 1 THEN SEP \o body
                    ELSE body
         IN  IF res = <<>> THEN <<".">> ELSE res

\* os.path.abspath: lexical only, symbolic links are not resolved
abspath(p) ==
    IF startswith(p, SEP) THEN normpath(p) ELSE normpath(CWD \o SEP \o p)

(***************************************************************************)
(* The filesystem: directory entries, named by their component lists.      *)
(***************************************************************************)
MB == 1024 * 1024

n_w == <<"w">>
n_o == <<"o">>
n_d == <<"d">>
n_a == <<"a">> \o GCODE
n_b == <<"b">> \o GCODE
n_s == <<"s">> \o GCODE
n_t == <<"a", ".", "t", "x", "t">>
n_x == <<"x">> \o GCODE

Dir == [k |-> "dir", size |-> 0, to |-> <<>>]
File(n) == [k |-> "file", size |-> n, to |-> <<>>]
Link(target) == [k |-> "link", size |-> 0, to |-> target]
Absent == [k |-> "none", size |-> 0, to |-> <<>>]

\* the one entry the environment rewrites while the monitor runs
WatchedEntry == <<n_w, n_a>>

\* what the environment can put at WatchedEntry: a written file, a file
\* truncated to nothing, a symbolic link to a file outside, no entry
WatchedNodes ==
    {File(2 * MB), File(0), Link(SEP \o n_o \o SEP \o n_s), Absent}

\* what the watched entry can hold when the monitor starts: regular files with
\* sizes at and around the limits of sync_file and at the sizes its tests use,
\* symbolic links to a file in the watch directory, to a file outside it and
\* to nothing, a directory, and no entry
StartNodes ==
    {File(n) : n \in {0, MIN_FILE_SIZE, 10 * MB, 205 * MB, 250 * MB,
                      WARN_FILE_SIZE, WARN_FILE_SIZE + 1,
                      MAX_FILE_SIZE, MAX_FILE_SIZE + 1}}
    \cup {Link(SEP \o n_w \o SEP \o n_b), Link(SEP \o n_w \o SEP \o n_x), Dir}
    \cup WatchedNodes

\* the rest of the tree: /w, /o, /w/d -> /o, /w/b.gcode, /w/a.txt, /o/s.gcode
FixedNode(ent) ==
    IF ent = <<n_w>> \/ ent = <<n_o>> THEN Dir
    ELSE IF ent = <<n_w, n_d>> THEN Link(SEP \o n_o)
    ELSE IF ent = <<n_w, n_b>> \/ ent = <<n_w, n_t>> \/ ent = <<n_o, n_s>>
    THEN File(2 * MB)
    ELSE Absent

(***************************************************************************)
(* Inputs                                                                  *)
(***************************************************************************)
P_a == WATCH_DIR \o SEP \o n_a                          \* /w/a.gcode
P_sub == WATCH_DIR \o SEP \o n_d \o SEP \o n_s          \* /w/d/s.gcode, d -> /o
P_dots == WATCH_DIR \o SEP \o <<".", ".">> \o SEP \o n_o \o SEP \o n_s  \* /w/../o/s.gcode
P_out == SEP \o n_o \o SEP \o n_s                       \* /o/s.gcode
P_txt == WATCH_DIR \o SEP \o n_t                        \* /w/a.txt
P_gone == SEP \o n_o \o SEP \o n_x                      \* /o/x.gcode, no such file

Paths == {P_a, P_sub, P_dots, P_out, P_txt, P_gone}

\* paths at the edge of the watch directory: the directory itself, with and
\* without a trailing separator, and a file in a sibling directory whose
\* name begins with the name of the watch directory
P_root == WATCH_DIR                                     \* /w
P_rootsep == WATCH_DIR \o SEP                           \* /w/
P_sib == WATCH_DIR \o <<"c">> \o SEP \o n_x             \* /wc/x.gcode

RootPaths == {P_root, P_rootsep, P_sib}

\* watchdog events, by the attributes a handler reads: created and modified
\* events carry src_path, moved events the dest_path the file was moved to
\* paths whose end is close to the extension: /w/x.GCODE and /w/x.gcode.txt
P_upper == WATCH_DIR \o SEP \o <<"x", ".", "G", "C", "O", "D", "E">>
P_suffix == WATCH_DIR \o SEP \o n_x \o <<".", "t", "x", "t">>

ExtPaths == {P_upper, P_suffix}

\* where a moved file came from: a name without the extension
MovedFrom == {P_txt}

Events == [is_directory : BOOLEAN, src_path : Paths]
MovedEvents == [is_directory : BOOLEAN, src_path : MovedFrom, dest_path : Paths]

\* no event on record: the observer may dispatch any event
NoEvent == [name |-> "none", e |-> <<>>]

\* the node at a directory entry when the watched entry holds node w
Node(ent, w) == IF ent = WatchedEntry THEN w ELSE FixedNode(ent)

\* depth at which the resolution of nested symbolic links gives up (ELOOP)
MaxLinkDepth == 4

\* path resolution of stat (follow = TRUE) and lstat (follow = FALSE):
\* <<TRUE, entry>> or <<FALSE, <<>>>> when the walk fails
RECURSIVE walk(_, _, _, _, _)
walk(comps, cur, follow, fuel, w) ==
    IF comps = <<>> THEN <<TRUE, cur>>
    ELSE LET c == Head(comps)
             rest == Tail(comps)
             ent == Append(cur, c)
             node == Node(ent, w)
         IN  IF c = <<>> \/ c = <<".">> THEN walk(rest, cur, follow, fuel, w)
             ELSE IF c = <<".", ".">>
             THEN walk(rest, IF cur = <<>> THEN cur ELSE SubSeq(cur, 1, Len(cur) - 1),
                       follow, fuel, w)
             ELSE IF node.k = "none" THEN <<FALSE, <<>>>>
             ELSE IF node.k = "link" /\ (rest # <<>> \/ follow)
             THEN IF fuel = 0 THEN <<FALSE, <<>>>>
                  ELSE walk(split(node.to) \o rest, <<>>, follow, fuel - 1, w)
             ELSE IF node.k = "file" /\ rest # <<>> THEN <<FALSE, <<>>>>
             ELSE walk(rest, ent, follow, fuel, w)

\* os.stat(p): the node p resolves to, symbolic links followed
stat(p, w) ==
    LET r == walk(split(p), <<>>, TRUE, MaxLinkDepth, w)
    IN  IF r[1] /\ r[2] # <<>> THEN Node(r[2], w) ELSE IF r[1] THEN Dir ELSE Absent

\* os.lstat(p): the last component is not followed
lstat(p, w) ==
    LET r == walk(split(p), <<>>, FALSE, MaxLinkDepth, w)
    IN  IF r[1] /\ r[2] # <<>> THEN Node(r[2], w) ELSE IF r[1] THEN Dir ELSE Absent

\* os.path.realpath(p) of a path that resolves, as a string
realpath(p, w) == SEP \o join(walk(split(p), <<>>, TRUE, MaxLinkDepth, w)[2])

\* the paths sync_file hands to the os.path functions, and the three
\* functions tabulated over them and over the nodes of the watched entry
AbsPaths == {abspath(p) : p \in Paths \cup RootPaths}
abspath_of == [p \in Paths \cup RootPaths |-> abspath(p)]
stat_of == [p \in AbsPaths |-> [w \in StartNodes |-> stat(p, w)]]
lstat_of == [p \in AbsPaths |-> [w \in StartNodes |-> lstat(p, w)]]
realpath_of == [p \in AbsPaths |-> [w \in StartNodes |-> realpath(p, w)]]

VARIABLES
    syncing,        \* GCodeHandler.syncing: the in-flight set of file_path strings
    syncing_lock,   \* GCodeHandler.syncing_lock: 0 when free, else the holding thread
    pc,             \* position of every thread
    calls,          \* number of invocations made so far
    ev,             \* the method invoked: on_created, on_moved, on_modified, sync_file
    file_path,      \* the path the invocation is about
    loc,            \* locals of sync_file and of the retry wrapper
    fs,             \* node at WatchedEntry
    fsChanges,      \* number of changes made by the environment
    config,         \* the dictionary load_config builds from config.local
    log_dir,        \* whether the parent directory of LOG_FILE exists
    main,           \* position of the module's start-up code and of main()
    legacy,         \* position of the legacy script scp_to_printer.py
    event           \* the watchdog event the observer dispatches, when it is on record

\* the state of the process around the handler
proc == <<config, log_dir, main, legacy, event>>

vars == <<syncing, syncing_lock, pc, calls, ev, file_path, loc, fs, fsChanges, proc>>

\* os.path.exists / islink / isfile / getsize, in the current filesystem
exists(p) == stat_of[p][fs].k # "none"
islink(p) == lstat_of[p][fs].k = "link"
isfile(p) == stat_of[p][fs].k = "file"
getsize(p) == stat_of[p][fs].size

\* a configuration that load_config accepts (the one of the logging test)
DefaultConfig ==
    [REMOTE_USER |-> <<"t", "e", "s", "t">>,
     REMOTE_HOST |-> <<"l", "o", "c", "a", "l", "h", "o", "s", "t">>,
     REMOTE_PORT |-> <<"2", "2">>,
     REMOTE_PATH |-> <<"/", "t", "m", "p">>,
     rest |-> "ok"]

\* remote paths that load_config accepts: plain, with a space, with a
\* leading hyphen
RemotePaths ==
    {<<"/", "t", "m", "p">>,
     <<"/", "m", "n", "t", "/", "u", "s", "b", "_", "s", "h", "a", "r", "e">>,
     <<"/", "m", "n", "t", "/", "u", "s", "b", " ", "s", "h", "a", "r", "e">>,
     <<"-", "-", "g", "c", "o", "d", "e">>}

\* the locals of sync_file and of the retry wrapper, and what a run has done
\* so far: warned (the large-file warning was logged), sleeps (the delays
\* passed to time.sleep by the wrapper), activations (calls of
\* refresh_usb_gadget), refresh (how the ssh command of the activation
\* ended), outcome (how the run ended)
NoLocals == [abs_file_path |-> <<>>, file_size |-> 0, warned |-> FALSE,
             timeout_seconds |-> 0, attempt |-> 0, delay |-> 0, e |-> "none",
             rsync_cmd |-> <<>>,
             sleeps |-> <<>>, activations |-> 0, refresh |-> "none",
             outcome |-> "none"]

Init ==
    /\ syncing = {}
    /\ syncing_lock = 0
    /\ pc = [t \in Threads |-> "idle"]
    /\ calls = 0
    /\ ev = [t \in Threads |-> "none"]
    /\ file_path = [t \in Threads |-> <<>>]
    /\ loc = [t \in Threads |-> NoLocals]
    /\ fs = File(2 * MB)
    /\ fsChanges = 0
    /\ config = DefaultConfig
    /\ log_dir = TRUE
    /\ main = "monitoring"
    /\ legacy = "none"
    /\ event = NoEvent

\* an idle thread makes the next invocation (the first one is thread 1's)
MayStart(t) ==
    /\ main = "monitoring"
    /\ pc[t] = "idle"
    /\ calls < MaxCalls
    /\ (t = 1 \/ calls > 0)
    /\ calls' = calls + 1

\* what is left of an invocation once sync_file is over: its frame is gone,
\* how it ended (what it logged) stays until the thread's next invocation
After(why) == [NoLocals EXCEPT !.outcome = why]

\* the thread's invocation is over
Ended(t) ==
    /\ pc' = [pc EXCEPT ![t] = "idle"]
    /\ ev' = [ev EXCEPT ![t] = "none"]
    /\ loc' = [loc EXCEPT ![t] = After(loc[t].outcome)]
    /\ UNCHANGED file_path

\* sync_file returns: to the handler when a handler called it
Return(t, why) ==
    /\ pc' = [pc EXCEPT ![t] = IF ev[t] = "sync_file" THEN "idle" ELSE "h_exit"]
    /\ ev' = [ev EXCEPT ![t] = IF ev[t] = "sync_file" THEN "none" ELSE ev[t]]
    /\ loc' = [loc EXCEPT ![t] = After(why)]
    /\ UNCHANGED file_path

\* Leave with the return missing after the extension is logged as wrong: the
\* run falls through to the size check
Leave_FallsThrough(t, why) ==
    /\ pc' = [pc EXCEPT ![t] = IF why = "wrong_extension" THEN "v_size" ELSE "fin_lock"]
    /\ loc' = [loc EXCEPT ![t].outcome = why]

\* leave the try block of sync_file with an outcome: on to the finally clause
Leave(t, why) ==
    /\ pc' = [pc EXCEPT ![t] = "fin_lock"]
    /\ loc' = [loc EXCEPT ![t].outcome = why]

(***************************************************************************)
(* The event handlers                                                      *)
(***************************************************************************)
\* handle with an extension test that ignores the case of the letters
handle_IgnoresCase(t, name, is_directory, p) ==
    LET lower(c) == CASE c = "G" -> "g" [] c = "C" -> "c" [] c = "O" -> "o"
                      [] c = "D" -> "d" [] c = "E" -> "e" [] OTHER -> c
        low == [i \in DOMAIN p |-> lower(p[i])]
    IN
    /\ IF ~is_directory /\ endswith(low, GCODE)
       THEN /\ pc' = [pc EXCEPT ![t] = "h_lock"]
            /\ ev' = [ev EXCEPT ![t] = name]
            /\ file_path' = [file_path EXCEPT ![t] = p]
       ELSE /\ file_path' = [file_path EXCEPT ![t] = <<>>]
            /\ UNCHANGED <<pc, ev>>
    /\ loc' = [loc EXCEPT ![t] = NoLocals]
    /\ UNCHANGED <<syncing, syncing_lock, fs, fsChanges, proc>>

\* the body shared by on_created, on_moved and on_modified, up to the lock
handle(t, name, is_directory, p) ==
    /\ IF ~is_directory /\ endswith(p, GCODE)
       THEN /\ pc' = [pc EXCEPT ![t] = "h_lock"]
            /\ ev' = [ev EXCEPT ![t] = name]
            /\ file_path' = [file_path EXCEPT ![t] = p]
       ELSE /\ file_path' = [file_path EXCEPT ![t] = <<>>]
            /\ UNCHANGED <<pc, ev>>
    /\ loc' = [loc EXCEPT ![t] = NoLocals]
    /\ UNCHANGED <<syncing, syncing_lock, fs, fsChanges, proc>>

\* the events the observer hands to the handler method called name: the
\* event on record when there is one, else any event of the method's kind
Dispatched(name, kind) ==
    IF event.name = "none" THEN kind
    ELSE IF event.name = name THEN {event.e}
    ELSE {}

on_created(t) ==
    /\ MayStart(t)
    /\ \E e \in Dispatched("on_created", Events) :
        handle(t, "on_created", e.is_directory, e.src_path)

\* on_moved with the path the file was moved from
on_moved_UsesSrcPath(t) ==
    /\ MayStart(t)
    /\ \E e \in Dispatched("on_moved", MovedEvents) :
        handle(t, "on_moved", e.is_directory, e.src_path)

on_moved(t) ==
    /\ MayStart(t)
    /\ \E e \in Dispatched("on_moved", MovedEvents) :
        handle(t, "on_moved", e.is_directory, e.dest_path)

on_modified(t) ==
    /\ MayStart(t)
    /\ \E e \in Dispatched("on_modified", Events) :
        handle(t, "on_modified", e.is_directory, e.src_path)

\* with self.syncing_lock: (in a handler)
HandlerAcquire(t) ==
    /\ pc[t] = "h_lock"
    /\ syncing_lock = 0
    /\ syncing_lock' = t
    /\ pc' = [pc EXCEPT ![t] = "h_in"]
    /\ UNCHANGED <<syncing, ev, file_path, loc, calls, fs, fsChanges, proc>>

\* if path not in self.syncing: self.sync_file(path)   (the lock is still held)
HandlerCheck(t) ==
    /\ pc[t] = "h_in"
    /\ IF file_path[t] \notin syncing
       THEN pc' = [pc EXCEPT ![t] = "sf_lock"] /\ UNCHANGED loc
       ELSE /\ pc' = [pc EXCEPT ![t] = "h_exit"]
            /\ loc' = [loc EXCEPT ![t] = After("dropped")]
    /\ UNCHANGED <<syncing, syncing_lock, ev, file_path, calls, fs, fsChanges, proc>>

\* the end of the handler's with block: release and return
HandlerExit(t) ==
    /\ pc[t] = "h_exit"
    /\ syncing_lock' = 0
    /\ Ended(t)
    /\ UNCHANGED <<syncing, calls, fs, fsChanges, proc>>

(***************************************************************************)
(* sync_file                                                               *)
(***************************************************************************)
\* a direct call of sync_file(file_path)
sync_file(t) ==
    /\ MayStart(t)
    /\ \E p \in Paths :
        /\ pc' = [pc EXCEPT ![t] = "sf_lock"]
        /\ ev' = [ev EXCEPT ![t] = "sync_file"]
        /\ file_path' = [file_path EXCEPT ![t] = p]
    /\ loc' = [loc EXCEPT ![t] = NoLocals]
    /\ UNCHANGED <<syncing, syncing_lock, fs, fsChanges, proc>>

\* with self.syncing_lock: (threading.Lock is not reentrant)
SyncAcquire(t) ==
    /\ pc[t] = "sf_lock"
    /\ syncing_lock = 0
    /\ syncing_lock' = t
    /\ pc' = [pc EXCEPT ![t] = "sf_in"]
    /\ UNCHANGED <<syncing, ev, file_path, loc, calls, fs, fsChanges, proc>>

\* SyncCheckAdd without the membership test: every call inserts and proceeds
SyncCheckAdd_NoCheck(t) ==
    /\ pc[t] = "sf_in"
    /\ syncing_lock' = 0
    /\ syncing' = syncing \cup {file_path[t]}
    /\ pc' = [pc EXCEPT ![t] = "settle"]
    /\ UNCHANGED <<ev, file_path, loc, calls, fs, fsChanges, proc>>

\* SyncCheckAdd with the early return moved inside the try block, so that the
\* finally clause discards the path of a dropped call
SyncCheckAdd_DropDiscards(t) ==
    /\ pc[t] = "sf_in"
    /\ syncing_lock' = 0
    /\ IF file_path[t] \in syncing
       THEN /\ Return(t, "dropped")
            /\ syncing' = syncing \ {file_path[t]}
       ELSE /\ syncing' = syncing \cup {file_path[t]}
            /\ pc' = [pc EXCEPT ![t] = "settle"]
            /\ UNCHANGED <<ev, file_path, loc>>
    /\ UNCHANGED <<calls, fs, fsChanges, proc>>

\* if file_path in self.syncing: return / self.syncing.add(file_path)
SyncCheckAdd(t) ==
    /\ pc[t] = "sf_in"
    /\ syncing_lock' = 0
    /\ IF file_path[t] \in syncing
       THEN /\ Return(t, "dropped")
            /\ UNCHANGED syncing
       ELSE /\ syncing' = syncing \cup {file_path[t]}
            /\ pc' = [pc EXCEPT ![t] = "settle"]
            /\ UNCHANGED <<ev, file_path, loc>>
    /\ UNCHANGED <<calls, fs, fsChanges, proc>>

abs_watch_dir == abspath_of[WATCH_DIR]

\* Settle with the prefix test made on the watch directory without a separator
Settle_PrefixOnly(t) ==
    /\ pc[t] = "settle"
    /\ LET abs_file_path == abspath_of[file_path[t]]
       IN  IF ~startswith(abs_file_path, abs_watch_dir)
           THEN Leave(t, "outside")
           ELSE /\ pc' = [pc EXCEPT ![t] = "v_exists"]
                /\ loc' = [loc EXCEPT ![t].abs_file_path = abs_file_path]
    /\ UNCHANGED <<syncing, syncing_lock, ev, file_path, calls, fs, fsChanges, proc>>

\* Settle going on to the re-validation, past the admission checks
Settle_SkipsAdmission(t) ==
    /\ pc[t] = "settle"
    /\ LET abs_file_path == abspath_of[file_path[t]]
       IN  IF ~startswith(abs_file_path, abs_watch_dir \o SEP)
           THEN Leave(t, "outside")
           ELSE /\ pc' = [pc EXCEPT ![t] = "rv_islink"]
                /\ loc' = [loc EXCEPT ![t].abs_file_path = abs_file_path]
    /\ UNCHANGED <<syncing, syncing_lock, ev, file_path, calls, fs, fsChanges, proc>>

\* time.sleep(FILE_SETTLE_DELAY) ends; abspath and the watch-directory check
Settle(t) ==
    /\ pc[t] = "settle"
    /\ LET abs_file_path == abspath_of[file_path[t]]
       IN  IF ~startswith(abs_file_path, abs_watch_dir \o SEP)
           THEN Leave(t, "outside")
           ELSE /\ pc' = [pc EXCEPT ![t] = "v_exists"]
                /\ loc' = [loc EXCEPT ![t].abs_file_path = abs_file_path]
    /\ UNCHANGED <<syncing, syncing_lock, ev, file_path, calls, fs, fsChanges, proc>>

\* if not os.path.exists(abs_file_path): return
CheckExists(t) ==
    /\ pc[t] = "v_exists"
    /\ IF ~exists(loc[t].abs_file_path)
       THEN Leave(t, "not_found")
       ELSE pc' = [pc EXCEPT ![t] = "v_islink"] /\ UNCHANGED loc
    /\ UNCHANGED <<syncing, syncing_lock, ev, file_path, calls, fs, fsChanges, proc>>

\* CheckLink without the test: a symbolic link goes on to the isfile check
CheckLink_NoCheck(t) ==
    /\ pc[t] = "v_islink"
    /\ pc' = [pc EXCEPT ![t] = "v_isfile"]
    /\ UNCHANGED <<loc, syncing, syncing_lock, ev, file_path, calls, fs, fsChanges, proc>>

\* if os.path.islink(abs_file_path): return
CheckLink(t) ==
    /\ pc[t] = "v_islink"
    /\ IF islink(loc[t].abs_file_path)
       THEN Leave(t, "symlink")
       ELSE pc' = [pc EXCEPT ![t] = "v_isfile"] /\ UNCHANGED loc
    /\ UNCHANGED <<syncing, syncing_lock, ev, file_path, calls, fs, fsChanges, proc>>

\* if not os.path.isfile(...): return / if not ...endswith('.gcode'): return
CheckFile(t) ==
    /\ pc[t] = "v_isfile"
    /\ IF ~isfile(loc[t].abs_file_path)
       THEN Leave(t, "wrong_type")
       ELSE IF ~endswith(loc[t].abs_file_path, GCODE)
       THEN Leave(t, "wrong_extension")
       ELSE pc' = [pc EXCEPT ![t] = "v_size"] /\ UNCHANGED loc
    /\ UNCHANGED <<syncing, syncing_lock, ev, file_path, calls, fs, fsChanges, proc>>

\* CheckSize with the upper limit exclusive: a file of MAX_FILE_SIZE is refused
CheckSize_ExclusiveMax(t) ==
    /\ pc[t] = "v_size"
    /\ IF ~exists(loc[t].abs_file_path)
       THEN Leave(t, "no_size")
       ELSE LET file_size == getsize(loc[t].abs_file_path)
            IN  IF file_size < MIN_FILE_SIZE THEN Leave(t, "too_small")
                ELSE IF file_size >= MAX_FILE_SIZE THEN Leave(t, "too_large")
                ELSE /\ pc' = [pc EXCEPT ![t] = "rv_islink"]
                     /\ loc' = [loc EXCEPT ![t].file_size = file_size,
                                           ![t].warned = file_size > WARN_FILE_SIZE]
    /\ UNCHANGED <<syncing, syncing_lock, ev, file_path, calls, fs, fsChanges, proc>>

\* os.path.getsize (OSError when the file is gone) and the size limits
CheckSize(t) ==
    /\ pc[t] = "v_size"
    /\ IF ~exists(loc[t].abs_file_path)
       THEN Leave(t, "no_size")
       ELSE LET file_size == getsize(loc[t].abs_file_path)
            IN  IF file_size < MIN_FILE_SIZE THEN Leave(t, "too_small")
                ELSE IF file_size > MAX_FILE_SIZE THEN Leave(t, "too_large")
                ELSE /\ pc' = [pc EXCEPT ![t] = "rv_islink"]
                     /\ loc' = [loc EXCEPT ![t].file_size = file_size,
                                           ![t].warned = file_size > WARN_FILE_SIZE]
    /\ UNCHANGED <<syncing, syncing_lock, ev, file_path, calls, fs, fsChanges, proc>>

\* RecheckLink without the test: the re-validation checks type and extension only
RecheckLink_NoCheck(t) ==
    /\ pc[t] = "rv_islink"
    /\ pc' = [pc EXCEPT ![t] = "rv_isfile"]
    /\ UNCHANGED <<loc, syncing, syncing_lock, ev, file_path, calls, fs, fsChanges, proc>>

\* re-validation: if os.path.islink(abs_file_path): return
RecheckLink(t) ==
    /\ pc[t] = "rv_islink"
    /\ IF islink(loc[t].abs_file_path)
       THEN Leave(t, "became_symlink")
       ELSE pc' = [pc EXCEPT ![t] = "rv_isfile"] /\ UNCHANGED loc
    /\ UNCHANGED <<syncing, syncing_lock, ev, file_path, calls, fs, fsChanges, proc>>

\* the sizes up to MAX_FILE_SIZE at which file_size * 60 / (100 MiB) is a whole
\* number but the double (file_size / 104857600) * 60 is rounded just below it
FloatShort == {205 * MB, 410 * MB, 820 * MB, 845 * MB}

\* scaled with the size rounded up to whole units of 100 MiB first
scaled_Ceil(file_size) ==
    ((file_size + 100 * MB - 1) \div (100 * MB)) * 60

\* int((file_size / (100 * 1024 * 1024)) * 60): the quotient and the product
\* are doubles, int() truncates (computed without leaving 32 bits)
scaled(file_size) ==
    LET exact == (file_size \div (100 * MB)) * 60
                     + ((file_size % (100 * MB)) * 3) \div (5 * MB)
    IN  IF file_size \in FloatShort THEN exact - 1 ELSE exact

\* timeout_for without the baseline
timeout_for_NoBaseline(file_size) ==
    scaled(file_size)

\* max(RSYNC_TOTAL_TIMEOUT, int((file_size / (100 * 1024 * 1024)) * 60))
timeout_for(file_size) ==
    IF scaled(file_size) > RSYNC_TOTAL_TIMEOUT THEN scaled(file_size)
    ELSE RSYNC_TOTAL_TIMEOUT

\* the module-level names of the connection settings
REMOTE_USER == config.REMOTE_USER
REMOTE_HOST == config.REMOTE_HOST
REMOTE_PORT == config.REMOTE_PORT
REMOTE_PATH == config.REMOTE_PATH

DIGITS == <<"0", "1", "2", "3", "4", "5", "6", "7", "8", "9">>

\* str(n) of a natural number, as an f-string formats it
RECURSIVE str(_)
str(n) ==
    IF n < 10 THEN <<DIGITS[n + 1]>>
    ELSE str(n \div 10) \o <<DIGITS[(n % 10) + 1]>>

\* the options of the ssh command that follow the port
SSH_OPTIONS ==
    <<" ", "-", "o", " ", "S", "t", "r", "i", "c", "t", "H", "o", "s", "t",
      "K", "e", "y", "C", "h", "e", "c", "k", "i", "n", "g", "=", "y",
      "e", "s", " ", "-", "o", " ", "C", "o", "n", "n", "e", "c", "t",
      "T", "i", "m", "e", "o", "u", "t", "=", "1", "0", " ", "-", "o",
      " ", "S", "e", "r", "v", "e", "r", "A", "l", "i", "v", "e", "I",
      "n", "t", "e", "r", "v", "a", "l", "=", "5", " ", "-", "o", " ",
      "S", "e", "r", "v", "e", "r", "A", "l", "i", "v", "e", "C", "o",
      "u", "n", "t", "M", "a", "x", "=", "3">>

\* rsync_cmd: the argument list handed to subprocess.run, each element as
\* the f-strings build it
rsync_cmd(abs_file_path) ==
    << <<"r", "s", "y", "n", "c">>,
       <<"-", "a", "v", "z">>,
       <<"-", "-", "t", "i", "m", "e", "o", "u", "t", "=">> \o str(RSYNC_TIMEOUT),
       <<"-", "e">>,
       <<"s", "s", "h", " ", "-", "p", " ">> \o REMOTE_PORT \o SSH_OPTIONS,
       abs_file_path,
       REMOTE_USER \o <<"@">> \o REMOTE_HOST \o <<":">> \o REMOTE_PATH \o <<"/">> >>

\* re-validation of type and extension, the timeout, the rsync command and
\* the entry into the retry wrapper (attempt = 1, delay = initial_delay)
RecheckFile(t) ==
    /\ pc[t] = "rv_isfile"
    /\ IF ~isfile(loc[t].abs_file_path)
       THEN Leave(t, "changed_type")
       ELSE IF ~endswith(loc[t].abs_file_path, GCODE)
       THEN Leave(t, "changed_extension")
       ELSE /\ pc' = [pc EXCEPT ![t] = "rsync"]
            /\ loc' = [loc EXCEPT ![t].timeout_seconds = timeout_for(loc[t].file_size),
                                  ![t].rsync_cmd = rsync_cmd(loc[t].abs_file_path),
                                  ![t].attempt = 1,
                                  ![t].delay = RETRY_INITIAL_DELAY]
    /\ UNCHANGED <<syncing, syncing_lock, ev, file_path, calls, fs, fsChanges, proc>>

\* what one subprocess.run of rsync can end with
RsyncResults == {"ok", "CalledProcessError", "TimeoutExpired", "OSError"}

\* Rsync with the last-attempt test off by one: a failed third attempt is
\* followed by a sleep and a fourth attempt
Rsync_OffByOne(t) ==
    /\ pc[t] = "rsync"
    /\ \E r \in RsyncResults :
        IF r = "ok"
        THEN pc' = [pc EXCEPT ![t] = "refresh"] /\ UNCHANGED loc
        ELSE IF r = "OSError"
        THEN Leave(t, "unexpected")
        ELSE IF loc[t].attempt = RETRY_MAX_ATTEMPTS + 1
        THEN Leave(t, r)
        ELSE /\ pc' = [pc EXCEPT ![t] = "backoff"]
             /\ loc' = [loc EXCEPT ![t].e = r]
    /\ UNCHANGED <<syncing, syncing_lock, ev, file_path, calls, fs, fsChanges, proc>>

\* Rsync with a wrapper that catches every exception: an OSError is retried
\* like a failed exit
Rsync_RetriesEverything(t) ==
    /\ pc[t] = "rsync"
    /\ \E r \in RsyncResults :
        IF r = "ok"
        THEN pc' = [pc EXCEPT ![t] = "refresh"] /\ UNCHANGED loc
        ELSE IF loc[t].attempt = RETRY_MAX_ATTEMPTS
        THEN Leave(t, IF r = "OSError" THEN "unexpected" ELSE r)
        ELSE /\ pc' = [pc EXCEPT ![t] = "backoff"]
             /\ loc' = [loc EXCEPT ![t].e = r]
    /\ UNCHANGED <<syncing, syncing_lock, ev, file_path, calls, fs, fsChanges, proc>>

\* one attempt of _execute_rsync_with_retry
Rsync(t) ==
    /\ pc[t] = "rsync"
    /\ \E r \in RsyncResults :
        IF r = "ok"
        THEN pc' = [pc EXCEPT ![t] = "refresh"] /\ UNCHANGED loc
        ELSE IF r = "OSError"
        THEN Leave(t, "unexpected")
        ELSE IF loc[t].attempt = RETRY_MAX_ATTEMPTS
        THEN Leave(t, r)
        ELSE /\ pc' = [pc EXCEPT ![t] = "backoff"]
             /\ loc' = [loc EXCEPT ![t].e = r]
    /\ UNCHANGED <<syncing, syncing_lock, ev, file_path, calls, fs, fsChanges, proc>>

\* Backoff without the multiplication: every delay is the initial delay
Backoff_NoGrowth(t) ==
    /\ pc[t] = "backoff"
    /\ pc' = [pc EXCEPT ![t] = "rsync"]
    /\ loc' = [loc EXCEPT ![t].sleeps = Append(loc[t].sleeps, loc[t].delay),
                          ![t].attempt = loc[t].attempt + 1,
                          ![t].e = "none"]
    /\ UNCHANGED <<syncing, syncing_lock, ev, file_path, calls, fs, fsChanges, proc>>

\* Backoff with the multiplication before the sleep
Backoff_SleepsAfterGrowing(t) ==
    /\ pc[t] = "backoff"
    /\ pc' = [pc EXCEPT ![t] = "rsync"]
    /\ loc' = [loc EXCEPT ![t].sleeps = Append(loc[t].sleeps,
                                               loc[t].delay * RETRY_BACKOFF_MULTIPLIER),
                          ![t].delay = loc[t].delay * RETRY_BACKOFF_MULTIPLIER,
                          ![t].attempt = loc[t].attempt + 1,
                          ![t].e = "none"]
    /\ UNCHANGED <<syncing, syncing_lock, ev, file_path, calls, fs, fsChanges, proc>>

\* time.sleep(delay) ends; delay *= backoff_multiplier; attempt += 1
Backoff(t) ==
    /\ pc[t] = "backoff"
    /\ pc' = [pc EXCEPT ![t] = "rsync"]
    /\ loc' = [loc EXCEPT ![t].sleeps = Append(loc[t].sleeps, loc[t].delay),
                          ![t].delay = loc[t].delay * RETRY_BACKOFF_MULTIPLIER,
                          ![t].attempt = loc[t].attempt + 1,
                          ![t].e = "none"]
    /\ UNCHANGED <<syncing, syncing_lock, ev, file_path, calls, fs, fsChanges, proc>>

\* what the subprocess.run of the ssh command can end with
RefreshResults == {"ok", "TimeoutExpired", "CalledProcessError", "OSError"}

\* refresh_usb_gadget called a second time when the first call returned False
refresh_usb_gadget_Twice(t) ==
    /\ pc[t] = "refresh"
    /\ \E r \in RefreshResults :
        /\ pc' = [pc EXCEPT ![t] = "fin_lock"]
        /\ loc' = [loc EXCEPT
                      ![t].activations = loc[t].activations + (IF r = "ok" THEN 1 ELSE 2),
                      ![t].refresh = r,
                      ![t].outcome = IF r = "ok" THEN "synced" ELSE "synced_not_refreshed"]
    /\ UNCHANGED <<syncing, syncing_lock, ev, file_path, calls, fs, fsChanges, proc>>

\* refresh_usb_gadget without its last except clause: an error that is neither
\* a timeout nor a non-zero exit reaches the except Exception of sync_file
refresh_usb_gadget_Raises(t) ==
    /\ pc[t] = "refresh"
    /\ \E r \in RefreshResults :
        /\ pc' = [pc EXCEPT ![t] = "fin_lock"]
        /\ loc' = [loc EXCEPT
                      ![t].activations = loc[t].activations + 1,
                      ![t].refresh = r,
                      ![t].outcome = IF r = "ok" THEN "synced"
                                     ELSE IF r = "OSError" THEN "unexpected"
                                     ELSE "synced_not_refreshed"]
    /\ UNCHANGED <<syncing, syncing_lock, ev, file_path, calls, fs, fsChanges, proc>>

\* self.refresh_usb_gadget(): subprocess.run of the ssh command; True when it
\* ends well, False after any exception, never an exception to the caller;
\* sync_file ignores the value
refresh_usb_gadget(t) ==
    /\ pc[t] = "refresh"
    /\ \E r \in RefreshResults :
        /\ pc' = [pc EXCEPT ![t] = "fin_lock"]
        /\ loc' = [loc EXCEPT
                      ![t].activations = loc[t].activations + 1,
                      ![t].refresh = r,
                      ![t].outcome = IF r = "ok" THEN "synced" ELSE "synced_not_refreshed"]
    /\ UNCHANGED <<syncing, syncing_lock, ev, file_path, calls, fs, fsChanges, proc>>

\* the statements of the try block an exception can come out of
TryBody == {"settle", "v_exists", "v_islink", "v_isfile", "v_size",
            "rv_islink", "rv_isfile", "rsync", "backoff"}

\* an unexpected exception in the try block: except Exception, then finally
Raise(t) ==
    /\ pc[t] \in TryBody
    /\ Leave(t, "unexpected")
    /\ UNCHANGED <<syncing, syncing_lock, ev, file_path, calls, fs, fsChanges, proc>>

\* the finally clause going to the discard without taking the lock
FinallyAcquire_NoLock(t) ==
    /\ pc[t] = "fin_lock"
    /\ pc' = [pc EXCEPT ![t] = "fin_in"]
    /\ UNCHANGED <<syncing, syncing_lock, ev, file_path, loc, calls, fs, fsChanges, proc>>

\* finally: with self.syncing_lock:
FinallyAcquire(t) ==
    /\ pc[t] = "fin_lock"
    /\ syncing_lock = 0
    /\ syncing_lock' = t
    /\ pc' = [pc EXCEPT ![t] = "fin_in"]
    /\ UNCHANGED <<syncing, ev, file_path, loc, calls, fs, fsChanges, proc>>

\* FinallyDiscard with self.syncing.clear() in place of the discard
FinallyDiscard_ClearsSet(t) ==
    /\ pc[t] = "fin_in"
    /\ syncing' = {}
    /\ syncing_lock' = 0
    /\ Return(t, loc[t].outcome)
    /\ UNCHANGED <<calls, fs, fsChanges, proc>>

\* FinallyDiscard without the discard
FinallyDiscard_NoDiscard(t) ==
    /\ pc[t] = "fin_in"
    /\ syncing_lock' = 0
    /\ Return(t, loc[t].outcome)
    /\ UNCHANGED <<syncing, calls, fs, fsChanges, proc>>

\* self.syncing.discard(file_path), release, return
FinallyDiscard(t) ==
    /\ pc[t] = "fin_in"
    /\ syncing' = syncing \ {file_path[t]}
    /\ syncing_lock' = 0
    /\ Return(t, loc[t].outcome)
    /\ UNCHANGED <<calls, fs, fsChanges, proc>>

(***************************************************************************)
(* The environment                                                         *)
(***************************************************************************)
\* another process rewrites the watched entry
FsChange ==
    /\ fsChanges < MaxFsChanges
    /\ \E n \in WatchedNodes \ {fs} : fs' = n
    /\ fsChanges' = fsChanges + 1
    /\ UNCHANGED <<syncing, syncing_lock, pc, calls, ev, file_path, loc, proc>>

\* the steps of a running sync_file
Run(t) ==
    \/ SyncAcquire(t) \/ SyncCheckAdd(t) \/ Settle(t)
    \/ CheckExists(t) \/ CheckLink(t) \/ CheckFile(t) \/ CheckSize(t)
    \/ RecheckLink(t) \/ RecheckFile(t)
    \/ Rsync(t) \/ Backoff(t) \/ refresh_usb_gadget(t)
    \/ FinallyAcquire(t) \/ FinallyDiscard(t)

\* the steps of a running invocation
Step(t) ==
    \/ HandlerAcquire(t) \/ HandlerCheck(t) \/ HandlerExit(t)
    \/ Run(t)

Next ==
    \/ \E t \in Threads :
        \/ on_created(t) \/ on_moved(t) \/ on_modified(t) \/ sync_file(t)
        \/ Step(t)
        \/ Raise(t)
    \/ FsChange

Spec == Init /\ [][Next]_vars

\* every running thread is scheduled, and every sleep and subprocess ends
FairSpec == Spec /\ \A t \in Threads : WF_vars(Step(t))

\* the events the observer dispatches to the handler
HandlerNames == {"on_created", "on_moved", "on_modified"}

\* the thread is inside a handler that the observer dispatched
InHandler(t) == pc[t] # "idle" /\ ev[t] \in HandlerNames

\* main: KeyboardInterrupt out of the sleep loop, then observer.stop(): the
\* observer dispatches no further event
Interrupt ==
    /\ main = "monitoring"
    /\ main' = "joining"
    /\ UNCHANGED <<syncing, syncing_lock, pc, calls, ev, file_path, loc, fs, fsChanges,
                   config, log_dir, legacy, event>>

\* main: observer.join() returns when the observer thread has ended, which it
\* does once the handler it is running has returned; then "Monitor stopped"
Join ==
    /\ main = "joining"
    /\ \A t \in Threads : ~InHandler(t)
    /\ main' = "stopped"
    /\ UNCHANGED <<syncing, syncing_lock, pc, calls, ev, file_path, loc, fs, fsChanges,
                   config, log_dir, legacy, event>>

\* main from observer.start() on: thread 1 is the observer thread, which runs
\* the handlers; thread 2 calls sync_file by itself
MainNext ==
    \/ on_created(1) \/ on_moved(1) \/ on_modified(1)
    \/ sync_file(2)
    \/ \E t \in Threads : Step(t) \/ Raise(t)
    \/ Interrupt
    \/ Join

MainSpec == Init /\ [][MainNext]_vars

\* every running thread is scheduled, and main goes on when join can return
FairMainSpec == MainSpec /\ (\A t \in Threads : WF_vars(Step(t))) /\ WF_vars(Join)

\* sync_file called from one thread, one call after another, on a filesystem
\* whose watched entry starts as any of StartNodes
ValInit ==
    /\ syncing = {}
    /\ syncing_lock = 0
    /\ pc = [t \in Threads |-> "idle"]
    /\ calls = 0
    /\ ev = [t \in Threads |-> "none"]
    /\ file_path = [t \in Threads |-> <<>>]
    /\ loc = [t \in Threads |-> NoLocals]
    /\ fs \in StartNodes
    /\ fsChanges = 0
    /\ config \in {[DefaultConfig EXCEPT !.REMOTE_PATH = rp] : rp \in RemotePaths}
    /\ log_dir = TRUE
    /\ main = "monitoring"
    /\ legacy = "none"
    /\ event = NoEvent

ValNext ==
    \/ sync_file(1)
    \/ Run(1)
    \/ Raise(1)
    \/ FsChange

ValSpec == ValInit /\ [][ValNext]_vars

\* sync_file has been called with one of Paths or of RootPaths
RootInit ==
    /\ syncing = {}
    /\ syncing_lock = 0
    /\ pc = [t \in Threads |-> IF t = 1 THEN "sf_lock" ELSE "idle"]
    /\ calls = 1
    /\ ev = [t \in Threads |-> IF t = 1 THEN "sync_file" ELSE "none"]
    /\ file_path \in {[t \in Threads |-> IF t = 1 THEN p ELSE <<>>] :
                        p \in Paths \cup RootPaths}
    /\ loc = [t \in Threads |-> NoLocals]
    /\ fs \in StartNodes
    /\ fsChanges = 0
    /\ config = DefaultConfig
    /\ log_dir = TRUE
    /\ main = "monitoring"
    /\ legacy = "none"
    /\ event = NoEvent

RootNext ==
    \/ Run(1)
    \/ Raise(1)
    \/ FsChange

RootSpec == RootInit /\ [][RootNext]_vars

\* a watchdog event on record, of the kind of each of the three methods,
\* about one of Paths or of ExtPaths
EventInputs ==
    {[name |-> n, e |-> x] :
        n \in {"on_created", "on_modified"},
        x \in [is_directory : BOOLEAN, src_path : Paths \cup ExtPaths]}
    \cup {[name |-> "on_moved", e |-> x] :
            x \in [is_directory : BOOLEAN, src_path : MovedFrom,
                   dest_path : Paths \cup ExtPaths]}

\* thread 1 has called sync_file; thread 2 is the observer thread, which is
\* handed the event on record, at any moment of thread 1's run
EventInit ==
    /\ syncing = {}
    /\ syncing_lock = 0
    /\ pc = [t \in Threads |-> IF t = 1 THEN "sf_lock" ELSE "idle"]
    /\ calls = 1
    /\ ev = [t \in Threads |-> IF t = 1 THEN "sync_file" ELSE "none"]
    /\ file_path \in {[t \in Threads |-> IF t = 1 THEN p ELSE <<>>] : p \in {P_a, P_out}}
    /\ loc = [t \in Threads |-> NoLocals]
    /\ fs = File(2 * MB)
    /\ fsChanges = 0
    /\ config = DefaultConfig
    /\ log_dir = TRUE
    /\ main = "monitoring"
    /\ legacy = "none"
    /\ event \in EventInputs

EventNext ==
    \/ on_created(2) \/ on_moved(2) \/ on_modified(2)
    \/ \E t \in Threads : Step(t) \/ Raise(t)

EventSpec == EventInit /\ [][EventNext]_vars

(***************************************************************************)
(* Start-up: load_config, the logging setup, and the legacy script         *)
(***************************************************************************)
\* the characters for which str.isdigit() is true: the decimal digits and,
\* among others, the superscript digits, which int() does not accept
DECIMALS == {"0", "1", "2", "3", "4", "5", "6", "7", "8", "9"}
OTHER_DIGITS == {"²"}

\* the backquote character (U+0060), which a string of this module cannot hold
BACKQUOTE == "U+0060"

\* str.isdigit(): not empty, and every character is a digit
isdigit(s) == s # <<>> /\ \A i \in 1..Len(s) : s[i] \in DECIMALS \cup OTHER_DIGITS

\* int(s) raises ValueError unless every character is a decimal digit
int_raises(s) == s = <<>> \/ \E i \in 1..Len(s) : s[i] \notin DECIMALS

\* int(s) of a string of decimal digits
RECURSIVE int(_)
int(s) ==
    IF s = <<>> THEN 0
    ELSE int(SubSeq(s, 1, Len(s) - 1)) * 10
            + (CHOOSE d \in 0..9 : DIGITS[d + 1] = s[Len(s)])

\* the character class of dangerous_chars without the backquote
dangerous_chars_NoBackquote ==
    {"$", ";", "|", "&", "<", ">", "(", ")", "{", "}"}

\* dangerous_chars of load_config: the characters of the class it compiles
dangerous_chars ==
    {"$", BACKQUOTE, ";", "|", "&", "<", ">", "(", ")", "{", "}"}

\* dangerous of validate_config: the characters of the class it compiles
dangerous ==
    {"$", BACKQUOTE, ";", "|", "&", "<", ">", "(", ")", "{", "}"}

\* pattern.search(s) for a pattern that is one character class
search(class, s) == \E i \in 1..Len(s) : s[i] \in class

\* the values the start-up code is run on
Ports == {<<"2", "2">>, <<"0">>, <<"1">>, <<"6", "5", "5", "3", "5">>, <<"6", "5", "5", "3", "6">>, <<>>, <<"2", "a">>,
          <<"0", "0", "2", "2">>, <<"²">>, <<"9", "9", "9", "9", "9">>}
Users == {<<"t", "e", "s", "t">>, <<"t", "e", ";", "s", "t">>, <<"$", "(", "i", "d", ")">>}
Hosts == {<<"l", "o", "c", "a", "l", "h", "o", "s", "t">>, <<"a", "|", "b">>, <<"h", BACKQUOTE, "x", BACKQUOTE>>}
BootPaths ==
    RemotePaths \cup
    {<<"/", "a", c, "b">> :
        c \in {"$", BACKQUOTE, ";", "|", "&", "<", ">", "(", ")", "{", "}"}}

\* the rest of config.local: complete and well-formed, or the file missing,
\* or a required key missing, or WATCH_DIR / LOG_FILE refused by the path checks
Rests == {"ok", "no_file", "missing_key", "bad_paths"}

BootConfigs ==
    [REMOTE_USER : Users, REMOTE_HOST : Hosts, REMOTE_PORT : Ports,
     REMOTE_PATH : BootPaths, rest : Rests]

\* config = load_config() at import: sys.exit(1) at the first check that
\* fails, ValueError out of int() for a digit that is not decimal
load_config ==
    /\ main = "import"
    /\ main' =
        IF config.rest = "no_file" THEN "exit"
        ELSE IF config.rest = "missing_key" THEN "exit"
        ELSE IF ~isdigit(config.REMOTE_PORT) THEN "exit"
        ELSE IF int_raises(config.REMOTE_PORT) THEN "ValueError"
        ELSE IF int(config.REMOTE_PORT) < 1 \/ int(config.REMOTE_PORT) > 65535 THEN "exit"
        ELSE IF search(dangerous_chars, config.REMOTE_HOST) THEN "exit"
        ELSE IF search(dangerous_chars, config.REMOTE_USER) THEN "exit"
        ELSE IF search(dangerous_chars, config.REMOTE_PATH) THEN "exit"
        ELSE IF config.rest = "bad_paths" THEN "exit"
        ELSE "logging_setup"
    /\ UNCHANGED <<syncing, syncing_lock, pc, calls, ev, file_path, loc, fs, fsChanges,
                   config, log_dir, legacy, event>>

\* logging.basicConfig(handlers=[logging.FileHandler(LOG_FILE), ...]): the
\* file is opened in its directory as it is; nothing creates the directory
logging_basicConfig ==
    /\ main = "logging_setup"
    /\ main' = IF log_dir THEN "loaded" ELSE "FileNotFoundError"
    /\ UNCHANGED <<syncing, syncing_lock, pc, calls, ev, file_path, loc, fs, fsChanges,
                   config, log_dir, legacy, event>>

\* main(): os.makedirs(WATCH_DIR), the observer is scheduled and started
observer_start ==
    /\ main = "loaded"
    /\ main' = "monitoring"
    /\ UNCHANGED <<syncing, syncing_lock, pc, calls, ev, file_path, loc, fs, fsChanges,
                   config, log_dir, legacy, event>>

\* validate_config of the legacy script: "ok" when it returns, "ValueError"
\* when it raises (int() raises ValueError too)
validate_config(port, remote_user, remote_host, remote_path) ==
    IF ~isdigit(port) THEN "ValueError"
    ELSE IF int_raises(port) THEN "ValueError"
    ELSE IF int(port) < 1 \/ int(port) > 65535 THEN "ValueError"
    ELSE IF search(dangerous, remote_user) THEN "ValueError"
    ELSE IF search(dangerous, remote_host) THEN "ValueError"
    ELSE IF search(dangerous, remote_path) THEN "ValueError"
    ELSE "ok"

\* scp_files of the legacy script, up to its validation: sys.exit(1) on
\* ValueError
scp_files ==
    /\ legacy = "none"
    /\ legacy' = IF validate_config(config.REMOTE_PORT, config.REMOTE_USER,
                                     config.REMOTE_HOST, config.REMOTE_PATH) = "ok"
                  THEN "validated" ELSE "exit"
    /\ UNCHANGED <<syncing, syncing_lock, pc, calls, ev, file_path, loc, fs, fsChanges,
                   config, log_dir, main, event>>

\* the start-up of the monitor, and the legacy script, on every configuration
BootInit ==
    /\ syncing = {}
    /\ syncing_lock = 0
    /\ pc = [t \in Threads |-> "idle"]
    /\ calls = 0
    /\ ev = [t \in Threads |-> "none"]
    /\ file_path = [t \in Threads |-> <<>>]
    /\ loc = [t \in Threads |-> NoLocals]
    /\ fs = File(2 * MB)
    /\ fsChanges = 0
    /\ config \in BootConfigs
    /\ log_dir \in BOOLEAN
    /\ main = "import"
    /\ legacy = "none"
    /\ event = NoEvent

BootNext == load_config \/ logging_basicConfig \/ observer_start \/ scp_files

BootSpec == BootInit /\ [][BootNext]_vars

(***************************************************************************)
(* Properties                                                              *)
(***************************************************************************)
\* the thread is between its insertion of file_path into syncing and its discard
InFlight(t) == pc[t] \in TryBody \cup {"refresh", "fin_lock", "fin_in"}

\* the thread has ended a run of the pipeline (it had inserted its path)
Processed(t) == pc[t] = "idle" /\ loc[t].outcome \notin {"none", "dropped"}

\* C1: for every path at most one invocation is between the insertion of the
\* path into syncing and its removal, so at most one rsync of it is active
C1_OneInFlightPerPath ==
    \A t, u \in Threads :
        (InFlight(t) /\ InFlight(u) /\ file_path[t] = file_path[u]) => t = u

\* one thread runs rsync for a path while the other, inside sync_file for the
\* same path, holds the lock and finds the path present
C1_Witness ==
    \E t, u \in Threads :
        /\ t # u
        /\ pc[t] = "rsync"
        /\ pc[u] = "sf_in"
        /\ file_path[u] = file_path[t]

\* C3: a handler never holds syncing_lock while it waits for it in sync_file
C3_HandlerCallsSyncFileUnlocked ==
    \A t \in Threads : pc[t] = "sf_lock" => syncing_lock # t

\* C5: an invocation that inserted its path leaves sync_file only with the
\* path out of syncing, and syncing is empty when no invocation is in flight
C5_CleanupOnEveryRoute ==
    /\ [][\A t \in Threads :
            (InFlight(t) /\ ~InFlight(t)') => file_path[t] \notin syncing']_vars
    /\ []((\A t \in Threads : ~InFlight(t)) => syncing = {})

\* both threads have left sync_file, one after an unexpected exception and
\* one after the last retry failed, and syncing is empty
C5_Witness ==
    /\ \E t, u \in Threads :
        /\ Processed(t) /\ loc[t].outcome = "unexpected"
        /\ Processed(u) /\ loc[u].outcome = "CalledProcessError"
    /\ syncing = {}

\* C7: syncing_lock is held only during one check, insert or remove on
\* syncing, never by a thread that sleeps, validates, transfers or waits
C7_LockHeldOnlyForSetOperation ==
    \A t \in Threads :
        syncing_lock = t => pc[t] \in {"h_in", "h_exit", "sf_in", "fin_in"}

\* the thread is at a membership test that finds its path in syncing
FindsPresent(t) == pc[t] \in {"h_in", "sf_in"} /\ file_path[t] \in syncing

\* C8: a call that finds its path in syncing returns at once: syncing is left
\* as it is and the call enters no step of the pipeline
C8_DuplicateIsDropped ==
    [][\A t \in Threads :
        (FindsPresent(t) /\ pc'[t] # pc[t]) =>
            /\ syncing' = syncing
            /\ pc'[t] \in {"idle", "h_exit"}
            /\ loc'[t] = After("dropped")]_vars

\* a direct call was dropped and has returned while the other thread's
\* transfer of the same path goes on, its path still in syncing
C8_Witness ==
    \E t, u \in Threads :
        /\ pc[t] = "idle" /\ loc[t].outcome = "dropped"
        /\ pc[u] = "rsync" /\ file_path[u] = file_path[t]
        /\ file_path[u] \in syncing

\* the canonical watch root plus a separator is a prefix of the canonical path
UnderCanonicalRoot(p) ==
    startswith(realpath_of[p][fs], realpath_of[abs_watch_dir][fs] \o SEP)

\* C10: no transfer is attempted for a path that lies outside the canonical
\* watch root
C10_OutsideRootNeverTransferred ==
    \A t \in Threads :
        pc[t] \in {"rsync", "backoff", "refresh"} => UnderCanonicalRoot(loc[t].abs_file_path)

\* C2: when the calls of both threads are handler calls for the same path and
\* neither has got past the lock, one transfer attempt for the path follows
C2_ConcurrentEventsGiveOneTransfer ==
    (\A t, u \in Threads : pc[t] = "h_lock" /\ file_path[t] = file_path[u])
        ~> (\E t \in Threads : InFlight(t))

\* C4: a handler call that admits its path returns to the event source
C4_AdmittingHandlerReturns ==
    \A t \in Threads :
        (ev[t] \in HandlerNames /\ pc[t] = "sf_lock") ~> (pc[t] = "idle")

\* C6: a path in syncing, put there by a thread, leads to the path out of
\* syncing, removed by that thread
C6_InFlightLeadsToIdle ==
    \A t \in Threads :
        (InFlight(t) /\ file_path[t] \in syncing) ~> ~InFlight(t)

\* C9: after a run for a path has ended, a later event for that path that
\* finds it out of syncing runs the pipeline, from the settle delay
C9_LaterEventIsProcessed ==
    \A t \in Threads :
        (/\ pc[t] = "h_in" /\ file_path[t] \notin syncing
         /\ \E u \in Threads : Processed(u) /\ file_path[u] = file_path[t])
            ~> (pc[t] = "settle")

(***************************************************************************)
(* Validation, timeout and retry                                           *)
(***************************************************************************)
\* the positions of sync_file after its first symlink check has passed
PastLinkCheck == {"v_isfile", "v_size", "rv_islink", "rv_isfile",
                  "rsync", "backoff", "refresh"}

\* C11: a path that is a symbolic link is rejected whatever its target is: a
\* run on an unchanged filesystem never gets past the symlink check with a
\* link, and whenever the symlink check finds a link the run ends there
C11_SymlinkAlwaysRejected ==
    /\ [](\A t \in Threads :
            (fsChanges = 0 /\ pc[t] \in PastLinkCheck)
                => ~islink(loc[t].abs_file_path))
    /\ [][\A t \in Threads :
            (pc[t] = "v_islink" /\ islink(loc[t].abs_file_path) /\ pc'[t] # pc[t])
                => /\ pc'[t] = "fin_lock"
                   /\ loc'[t].outcome \in {"symlink", "unexpected"}]_vars

\* a link to a regular .gcode file inside the watch directory was refused
C11_Witness ==
    \E t \in Threads :
        /\ pc[t] = "fin_lock" /\ loc[t].outcome = "symlink"
        /\ fs = Link(SEP \o n_w \o SEP \o n_b) /\ fsChanges = 0

\* the run of the thread ends here as a rejection for the given reason
RejectedAs(t, why) == pc'[t] = "fin_lock" /\ loc'[t].outcome = why

\* C12: the size check of a file that passed the earlier checks refuses sizes
\* below MIN_FILE_SIZE and above MAX_FILE_SIZE, accepts every size from
\* MIN_FILE_SIZE to MAX_FILE_SIZE, both included, and logs the large-file
\* warning for an accepted file exactly when its size exceeds WARN_FILE_SIZE
C12_SizeLimits ==
    [][\A t \in Threads :
        (/\ pc[t] = "v_size" /\ pc'[t] # "v_size"
         /\ exists(loc[t].abs_file_path)
         /\ loc'[t].outcome # "unexpected")
            => LET s == getsize(loc[t].abs_file_path)
               IN  /\ s < MIN_FILE_SIZE => RejectedAs(t, "too_small")
                   /\ s > MAX_FILE_SIZE => RejectedAs(t, "too_large")
                   /\ (MIN_FILE_SIZE <= s /\ s <= MAX_FILE_SIZE)
                        => /\ pc'[t] = "rv_islink"
                           /\ loc'[t].file_size = s
                           /\ loc'[t].warned = (s > WARN_FILE_SIZE)]_vars

\* a file of exactly MAX_FILE_SIZE bytes was accepted, with the warning
C12_Witness ==
    \E t \in Threads :
        /\ pc[t] = "rv_islink"
        /\ loc[t].file_size = MAX_FILE_SIZE
        /\ loc[t].warned

\* the outcomes of a run that a validation check ended
Rejections == {"outside", "not_found", "symlink", "wrong_type", "wrong_extension",
               "no_size", "too_small", "too_large",
               "became_symlink", "changed_type", "changed_extension"}

\* C13: a run that a validation check rejected is in its finally clause or
\* over, it has made no rsync attempt, slept for no retry and invoked no
\* activation; once it is over and no other run is in flight syncing is empty;
\* and an event that starts nothing (a directory, or a name that does not end
\* in .gcode) leaves syncing as it is
C13_RejectionIsTerminal ==
    /\ [](\A t \in Threads :
            loc[t].outcome \in Rejections
                => /\ pc[t] \in {"fin_lock", "fin_in", "h_exit", "idle"}
                   /\ loc[t].attempt = 0
                   /\ loc[t].sleeps = <<>>
                   /\ loc[t].activations = 0)
    /\ [](\A t \in Threads :
            (/\ Processed(t) /\ loc[t].outcome \in Rejections
             /\ \A u \in Threads \ {t} : ~InFlight(u))
                => syncing = {})
    /\ [][(calls' # calls /\ pc' = pc) => syncing' = syncing]_vars

\* sync_file of a .txt file in the watch directory was rejected at the
\* extension check and has returned, and syncing is empty
C13_Witness ==
    \E t \in Threads :
        /\ Processed(t) /\ loc[t].outcome = "wrong_extension"
        /\ file_path[t] = P_txt
        /\ syncing = {}

\* C14: a file that passed the first validation and is a symbolic link when
\* the re-validation looks at it is rejected there, and the run that rejected
\* it makes no transfer attempt
C14_RevalidationRejectsSymlink ==
    /\ [][\A t \in Threads :
            (pc[t] = "rv_islink" /\ islink(loc[t].abs_file_path) /\ pc'[t] # pc[t])
                => /\ pc'[t] = "fin_lock"
                   /\ loc'[t].outcome \in {"became_symlink", "unexpected"}]_vars
    /\ [](\A t \in Threads :
            loc[t].outcome = "became_symlink"
                => pc[t] \in {"fin_lock", "fin_in", "h_exit", "idle"} /\ loc[t].attempt = 0)

\* the file was accepted by the size check, then replaced by a link, and the
\* re-validation has refused it
C14_Witness ==
    \E t \in Threads :
        /\ pc[t] = "fin_lock" /\ loc[t].outcome = "became_symlink"
        /\ loc[t].file_size > 0
        /\ fs.k = "link" /\ fsChanges = 1

\* C15: whenever a run enters an rsync attempt, the first or a retry, its file
\* is at that moment a regular file and not a symbolic link
C15_RegularFileAtEveryAttempt ==
    [][\A t \in Threads :
        (pc[t] # "rsync" /\ pc'[t] = "rsync")
            => /\ ~islink(loc[t].abs_file_path)'
               /\ isfile(loc[t].abs_file_path)'
               /\ endswith(loc[t].abs_file_path, GCODE)']_vars

\* the positions of a run whose timeout has been computed
HasTimeout == {"rsync", "backoff", "refresh"}

Max(a, b) == IF a >= b THEN a ELSE b

\* size / (100 MiB) rounded up to a whole number, times 60 s
CeilUnitsSeconds(s) ==
    (s \div (100 * MB) + (IF s % (100 * MB) = 0 THEN 0 ELSE 1)) * 60

\* size * 60 / (100 MiB), truncated to whole seconds
ProportionalSeconds(s) ==
    (60 * (s \div MB) + (60 * (s % MB)) \div MB) \div 100

\* C16, as claimed: the timeout is max(120, ceil(size / 100 MiB) * 60)
C16_TimeoutRoundsUnitsUp ==
    \A t \in Threads :
        pc[t] \in HasTimeout
            => loc[t].timeout_seconds
                   = Max(RSYNC_TOTAL_TIMEOUT, CeilUnitsSeconds(loc[t].file_size))

\* C16, amended: the timeout is max(120, int((size / 100 MiB) * 60)): the
\* proportional number of seconds truncated, one less at the four sizes
\* where the double-precision product falls just below a whole number
C16_TimeoutIsProportional ==
    \A t \in Threads :
        pc[t] \in HasTimeout
            => loc[t].timeout_seconds
                   = Max(RSYNC_TOTAL_TIMEOUT,
                         ProportionalSeconds(loc[t].file_size)
                             - (IF loc[t].file_size \in FloatShort THEN 1 ELSE 0))

\* a file of 250 MiB is about to be transferred with a timeout of 150 s
C16_Witness ==
    \E t \in Threads :
        /\ pc[t] = "rsync"
        /\ loc[t].file_size = 250 * MB
        /\ loc[t].timeout_seconds = 150

\* the sizes the timeout is compared over
SampleSizes ==
    {1, 10 * MB, 200 * MB - 1, 200 * MB, 200 * MB + 1, 205 * MB - 1, 205 * MB,
     205 * MB + 1, 250 * MB, 410 * MB, 500 * MB, 500 * MB + 1, 820 * MB,
     845 * MB, MAX_FILE_SIZE - 1, MAX_FILE_SIZE}

\* C17: the timeout of a run is at least 120 s, no smaller size gets a longer
\* timeout and no larger size a shorter one, 10 MiB gives 120 s and 500 MiB
\* gives 300 s
C17_TimeoutBaselineAndMonotone ==
    \A t \in Threads :
        pc[t] \in HasTimeout
            => /\ loc[t].timeout_seconds >= RSYNC_TOTAL_TIMEOUT
               /\ \A s \in SampleSizes :
                    /\ s <= loc[t].file_size => timeout_for(s) <= loc[t].timeout_seconds
                    /\ s >= loc[t].file_size => timeout_for(s) >= loc[t].timeout_seconds
               /\ loc[t].file_size = 10 * MB => loc[t].timeout_seconds = 120
               /\ loc[t].file_size = 500 * MB => loc[t].timeout_seconds = 300

\* a file of 500 MiB is about to be transferred with a timeout of 300 s
C17_Witness ==
    \E t \in Threads :
        /\ pc[t] = "rsync"
        /\ loc[t].file_size = 500 * MB
        /\ loc[t].timeout_seconds = 300

\* the failures the retry wrapper catches
Transient == {"CalledProcessError", "TimeoutExpired"}

\* C18: a run makes at most RETRY_MAX_ATTEMPTS attempts; it waits for a retry
\* only after an attempt that was not the last failed with a caught failure,
\* and the next attempt follows only such a wait; no attempt follows a
\* success; the failure of the last attempt ends the run with that failure
\* and without a sleep
C18_RetryDiscipline ==
    /\ [](\A t \in Threads :
            /\ pc[t] \in {"rsync", "backoff"}
                    => loc[t].attempt \in 1..RETRY_MAX_ATTEMPTS
            /\ pc[t] = "backoff"
                    => loc[t].e \in Transient /\ loc[t].attempt < RETRY_MAX_ATTEMPTS)
    /\ [][\A t \in Threads :
            /\ (loc[t].attempt >= 1 /\ loc'[t].attempt > loc[t].attempt)
                    => /\ pc[t] = "backoff" /\ pc'[t] = "rsync"
                       /\ loc'[t].attempt = loc[t].attempt + 1
            /\ (pc[t] # "rsync" /\ pc'[t] = "rsync")
                    => pc[t] \in {"rv_isfile", "backoff"}
            /\ pc[t] = "refresh" => pc'[t] \in {"refresh", "fin_lock"}
            /\ (/\ pc[t] = "rsync" /\ loc[t].attempt = RETRY_MAX_ATTEMPTS
                /\ pc'[t] \notin {"rsync", "refresh"})
                    => /\ pc'[t] = "fin_lock"
                       /\ loc'[t].outcome \in Transient \cup {"unexpected"}
                       /\ loc'[t].sleeps = loc[t].sleeps]_vars

\* three attempts were made and the third one timed out: the run is in its
\* finally clause with that failure
C18_Witness ==
    \E t \in Threads :
        /\ pc[t] = "fin_lock" /\ loc[t].outcome = "TimeoutExpired"
        /\ loc[t].attempt = 3

\* the run has made its third attempt and that attempt failed
ThirdAttemptFailed(t) ==
    /\ pc[t] = "fin_lock"
    /\ loc[t].outcome \in Transient
    /\ loc[t].attempt = 3

C20_TwoDelaysThenOneActivation ==
    /\ [](\A t \in Threads :
            /\ (pc[t] = "refresh" /\ loc[t].attempt = 3)
                    => loc[t].sleeps = <<2, 4>> /\ loc[t].activations = 0
            /\ (pc[t] \in {"fin_lock", "fin_in"}
                    /\ loc[t].outcome \in {"synced", "synced_not_refreshed"})
                    => /\ loc[t].activations = 1
                       /\ loc[t].attempt = 3 => loc[t].sleeps = <<2, 4>>
            /\ (pc[t] \in {"fin_lock", "fin_in"}
                    /\ loc[t].outcome \notin {"synced", "synced_not_refreshed"})
                    => loc[t].activations = 0)
    /\ [][\A t \in Threads :
            loc'[t].activations > loc[t].activations
                => pc[t] = "refresh" /\ pc'[t] = "fin_lock"]_vars

\* attempts 1 and 2 failed, attempt 3 succeeded and the activation has run
C20_Witness ==
    \E t \in Threads :
        /\ pc[t] = "fin_lock" /\ loc[t].outcome = "synced"
        /\ loc[t].attempt = 3
        /\ loc[t].sleeps = <<2, 4>>
        /\ loc[t].activations = 1

(***************************************************************************)
(* Activation, failures, the rsync command, start-up and shutdown          *)
(***************************************************************************)
\* the outcomes of a run whose transfer succeeded
Synced == {"synced", "synced_not_refreshed"}

\* C21: the activation is invoked once in a run whose transfer succeeded, in
\* the step after the successful attempt, and in no other run; a run that
\* succeeded has its path out of syncing when it is over
C21_OneActivationAfterSuccess ==
    /\ [](\A t \in Threads :
            /\ loc[t].activations <= 1
            /\ pc[t] \in {"fin_lock", "fin_in"}
                    => (loc[t].activations = 1 <=> loc[t].outcome \in Synced)
            /\ pc[t] \in TryBody \cup {"refresh"} => loc[t].activations = 0
            /\ (Processed(t) /\ loc[t].outcome \in Synced)
                    => file_path[t] \notin syncing)
    /\ [][\A t \in Threads :
            /\ loc'[t].activations > loc[t].activations
                    => pc[t] = "refresh" /\ pc'[t] = "fin_lock"
            /\ (pc[t] # "refresh" /\ pc'[t] = "refresh")
                    => pc[t] = "rsync" /\ loc'[t].attempt = loc[t].attempt]_vars

\* sync_file of the 2 MiB file /w/a.gcode has succeeded and returned, and
\* syncing is empty
C21_Witness ==
    \E t \in Threads :
        /\ Processed(t) /\ loc[t].outcome = "synced"
        /\ file_path[t] = P_a
        /\ fs = File(2 * MB) /\ fsChanges = 0
        /\ syncing = {}

Failures == Rejections \cup Transient \cup {"unexpected"}

\* C23: after a run has ended in a rejection, in a transfer failure with the
\* retries exhausted or in an unexpected exception, a handler that has taken
\* an event for a .gcode file processes it: it starts the pipeline, or drops
\* the event as a duplicate and returns
C23_HandlerProcessesAfterFailure ==
    \A t \in Threads :
        (/\ pc[t] = "h_lock"
         /\ \E u \in Threads : Processed(u) /\ loc[u].outcome \in Failures)
            ~> (pc[t] \in {"settle", "idle"})

\* the option that makes rsync take its arguments literally
PROTECT_ARGS == <<"-", "-", "p", "r", "o", "t", "e", "c", "t", "-", "a", "r", "g", "s">>

QUOTES == {"\"", "'"}

\* C24: whatever REMOTE_PATH is, the argument list of a transfer attempt holds
\* --protect-args, and its last element is the destination, which ends in
\* REMOTE_PATH followed by "/"
C24_ProtectArgsAndDestinationLast ==
    \A t \in Threads :
        pc[t] = "rsync"
            => LET cmd == loc[t].rsync_cmd
               IN  /\ \E i \in 1..Len(cmd) : cmd[i] = PROTECT_ARGS
                   /\ endswith(cmd[Len(cmd)], REMOTE_PATH \o <<"/">>)

\* C25: when REMOTE_PATH holds a space, the destination of a transfer attempt
\* has a quote character directly after a ":" and a quote character at its end
C25_DestinationWithSpaceIsQuoted ==
    \A t \in Threads :
        (pc[t] = "rsync" /\ \E i \in 1..Len(REMOTE_PATH) : REMOTE_PATH[i] = " ")
            => LET destination == loc[t].rsync_cmd[Len(loc[t].rsync_cmd)]
               IN  /\ \E i \in 1..(Len(destination) - 1) :
                        destination[i] = ":" /\ destination[i + 1] \in QUOTES
                   /\ destination[Len(destination)] \in QUOTES

\* C26: while another thread's transfer of a different file is in progress or
\* waits for a retry, a handler that has taken an event for a .gcode file
\* starts the pipeline for it
C26_OtherFileIsNotDelayed ==
    \A t \in Threads :
        (/\ pc[t] = "h_lock"
         /\ \E u \in Threads :
                pc[u] \in {"rsync", "backoff"} /\ file_path[u] # file_path[t])
            ~> (pc[t] = "settle")

\* C27: once main has been interrupted and has stopped the observer,
\* observer.join() returns and main reaches "Monitor stopped"
C27_InterruptedMainTerminates ==
    (main = "joining") ~> (main = "stopped")

\* the port is a decimal number from 1 to 65535
ValidPort(port) ==
    /\ port # <<>>
    /\ \A i \in 1..Len(port) : port[i] \in DECIMALS
    /\ 1 <= int(port) /\ int(port) <= 65535

\* the characters a remote user, host or path must not hold
ShellMetacharacters == {"$", BACKQUOTE, ";", "|", "&", "<", ">", "(", ")", "{", "}"}

\* the four connection settings are all valid
ValidRemote ==
    /\ ValidPort(config.REMOTE_PORT)
    /\ \A v \in {config.REMOTE_USER, config.REMOTE_HOST, config.REMOTE_PATH} :
            \A i \in 1..Len(v) : v[i] \notin ShellMetacharacters

C29_LogDirectoryExistsForFileHandler ==
    main = "logging_setup" => log_dir

\* the rejections of the first validation
AdmissionRejections == {"outside", "not_found", "symlink", "wrong_type",
                        "wrong_extension", "too_small", "too_large"}

\* the first check that fails in the order: resolution, watch root, symbolic
\* link, type, extension, size
EarliestFailure(p) ==
    LET a == abspath_of[p]
    IN  IF ~exists(a) THEN "not_found"
        ELSE IF ~UnderCanonicalRoot(a) THEN "outside"
        ELSE IF islink(a) THEN "symlink"
        ELSE IF ~isfile(a) THEN "wrong_type"
        ELSE IF ~endswith(a, GCODE) THEN "wrong_extension"
        ELSE IF getsize(a) < MIN_FILE_SIZE THEN "too_small"
        ELSE IF getsize(a) > MAX_FILE_SIZE THEN "too_large"
        ELSE "none"

\* C30: on a filesystem that has not changed, the reason a run was rejected
\* with is that of the first failing check in the order not found, outside
\* the watch root, symbolic link, wrong type, wrong extension, size
C30_EarliestCheckGivesTheReason ==
    \A t \in Threads :
        (fsChanges = 0 /\ loc[t].outcome \in AdmissionRejections)
            => loc[t].outcome = EarliestFailure(file_path[t])

(***************************************************************************)
(* Re-validation, order of the steps, containment, events, the in-flight   *)
(* set                                                                     *)
(***************************************************************************)
\* what the admission checks of sync_file, in their order, say of the file
\* as it is now
AdmissionVerdict(p) ==
    LET a == abspath_of[p]
    IN  IF ~startswith(a, abs_watch_dir \o SEP) THEN "outside"
        ELSE IF ~exists(a) THEN "not_found"
        ELSE IF islink(a) THEN "symlink"
        ELSE IF ~isfile(a) THEN "wrong_type"
        ELSE IF ~endswith(a, GCODE) THEN "wrong_extension"
        ELSE IF getsize(a) < MIN_FILE_SIZE THEN "too_small"
        ELSE IF getsize(a) > MAX_FILE_SIZE THEN "too_large"
        ELSE "none"

\* C31: a run goes from the re-validation to its first transfer attempt only
\* with a file that passes every admission check at that moment (the file is
\* not a symbolic link then: the case of a link is that of C15)
C31_RevalidationRepeatsAdmission ==
    [][\A t \in Threads :
        (/\ pc[t] = "rv_isfile" /\ pc'[t] = "rsync"
         /\ ~islink(loc[t].abs_file_path)')
            => AdmissionVerdict(file_path[t])' = "none"]_vars

\* the statements of sync_file in the order of the source
Order == <<"sf_lock", "sf_in", "settle", "v_exists", "v_islink", "v_isfile",
           "v_size", "rv_islink", "rv_isfile", "rsync", "backoff", "refresh",
           "fin_lock", "fin_in">>

Range(f) == {f[i] : i \in DOMAIN f}

Pos(p) == CHOOSE i \in 1..Len(Order) : Order[i] = p

C33_SettleBetweenThePasses ==
    [][\A t \in Threads :
        /\ (pc[t] # "settle" /\ pc'[t] = "settle") => pc[t] = "v_size"
        /\ (pc[t] = "settle" /\ pc'[t] # "settle")
                => pc'[t] \in {"rv_islink", "fin_lock"}]_vars

\* the components of a are those of the root followed by at least one more
StrictDescendant(a, root) ==
    /\ Len(split(a)) > Len(split(root))
    /\ SubSeq(split(a), 1, Len(split(root))) = split(root)

\* C34: the watch-directory check lets a run go on exactly when the absolute
\* path is a strict descendant of the absolute watch directory: the watch
\* directory itself and a file in a sibling directory whose name begins with
\* its name are refused as outside, a file in the watch directory or in a
\* directory below it goes on to the next check
C34_StrictDescendantOfRoot ==
    [][\A t \in Threads :
        (pc[t] = "settle" /\ pc'[t] # "settle" /\ loc'[t].outcome # "unexpected")
            => /\ RejectedAs(t, "outside")
                    <=> ~StrictDescendant(abspath(file_path[t]), abspath(WATCH_DIR))
               /\ ~RejectedAs(t, "outside") => pc'[t] = "v_exists"
               /\ file_path[t] \in RootPaths => RejectedAs(t, "outside")
               /\ file_path[t] \in {P_a, P_sub} => pc'[t] = "v_exists"]_vars

\* sync_file of /wc/x.gcode was refused as outside the watch directory /w
C34_Witness ==
    \E t \in Threads :
        /\ Processed(t)
        /\ loc[t].outcome = "outside"
        /\ file_path[t] = P_sib

\* the statements that read or write self.syncing
SetOperations == {"h_in", "sf_in", "fin_in"}

\* C35: a thread that is at a membership test, at the add or at the discard
\* holds syncing_lock, and syncing changes only in a step of the thread that
\* holds the lock, made at the add or at the discard
C35_SetTouchedOnlyUnderLock ==
    /\ [](\A t \in Threads : pc[t] \in SetOperations => syncing_lock = t)
    /\ [][syncing' # syncing
            => \E t \in Threads :
                /\ syncing_lock = t
                /\ pc[t] \in {"sf_in", "fin_in"} /\ pc'[t] # pc[t]
                /\ syncing' \in {syncing \cup {file_path[t]},
                                  syncing \ {file_path[t]}}]_vars

\* one thread holds the lock at its discard while the other waits for the
\* lock to test and add its path
C35_Witness ==
    \E t, u \in Threads :
        /\ pc[t] = "fin_in" /\ syncing_lock = t
        /\ pc[u] = "sf_lock" /\ ev[u] = "sync_file"
        /\ file_path[t] \in syncing


(***************************************************************************)
(* Events                                                                  *)
(***************************************************************************)
\* the path the event on record is about: dest_path for a move, else src_path
Affected == IF event.name = "on_moved" THEN event.e.dest_path ELSE event.e.src_path

\* the step hands the event on record to its handler method
Delivered == event.name # "none" /\ calls' = calls + 1

\* p ends with the six characters .gcode
HasExtension(p) ==
    /\ Len(p) >= Len(GCODE)
    /\ \A i \in 1..Len(GCODE) : p[Len(p) - Len(GCODE) + i] = GCODE[i]

\* C36: create, move-in and modify events are treated alike. Whatever the
\* method, the event is taken up exactly when it is not a directory event and
\* its affected path (dest_path for a move, src_path otherwise) ends with
\* .gcode; the handler then waits for the lock with that path, and under the
\* lock it calls sync_file exactly when the path is not in the in-flight
\* set, and returns otherwise; none of these steps changes the set.
C36_EventsTreatedAlike ==
    /\ [][Delivered =>
            /\ syncing' = syncing /\ syncing_lock' = syncing_lock
            /\ IF ~event.e.is_directory /\ HasExtension(Affected)
               THEN \E t \in Threads :
                        /\ pc[t] = "idle"
                        /\ pc' = [pc EXCEPT ![t] = "h_lock"]
                        /\ ev' = [ev EXCEPT ![t] = event.name]
                        /\ file_path' = [file_path EXCEPT ![t] = Affected]
                        /\ loc'[t] = NoLocals
               ELSE pc' = pc /\ ev' = ev]_vars
    /\ [][\A t \in Threads :
            (ev[t] \in HandlerNames /\ pc[t] = "h_in" /\ pc'[t] # "h_in") =>
                /\ syncing' = syncing
                /\ file_path'[t] = file_path[t]
                /\ pc'[t] = IF file_path[t] \in syncing THEN "h_exit" ELSE "sf_lock"
                /\ loc'[t].outcome = IF file_path[t] \in syncing THEN "dropped" ELSE "none"]_vars
    /\ [](\A t \in Threads : ev[t] \in HandlerNames => ev[t] = event.name /\ file_path[t] = Affected)

\* a file moved from a.txt to a.gcode while a.gcode is in flight: the move is
\* taken up by its dest_path, and dropped
C36_Witness ==
    \E t \in Threads :
        /\ ev[t] = "on_moved" /\ pc[t] = "h_exit" /\ loc[t].outcome = "dropped"
        /\ event.e.src_path = P_txt /\ file_path[t] = P_a /\ P_a \in syncing

\* the event on record is one the handlers ignore: a directory event, or one
\* about a.txt, x.GCODE or x.gcode.txt
Ignored == event.name # "none" /\ (event.e.is_directory \/ Affected \in ExtPaths \cup {P_txt})

\* C37: a directory event, or an event whose path does not end with .gcode
\* in lower case, changes nothing: the step that hands it to the handler
\* leaves the in-flight set, the lock, the position and the locals of every
\* run and the filesystem as they were, and the handler's thread never gets
\* to the lock, the settle delay, a validation, a transfer or an activation.
C37_IgnoredEventChangesNothing ==
    /\ [][(Delivered /\ Ignored) =>
            /\ syncing' = syncing /\ syncing_lock' = syncing_lock
            /\ pc' = pc /\ ev' = ev /\ fs' = fs
            /\ \A t \in Threads : pc[t] # "idle" => loc'[t] = loc[t] /\ file_path'[t] = file_path[t]
            /\ \A t \in Threads : pc[t] = "idle" => loc'[t].sleeps = <<>> /\ loc'[t].activations = 0]_vars
    /\ [](Ignored => \A t \in Threads : ev[t] \notin HandlerNames)

\* x.GCODE was created, not as a directory, while a.gcode was being
\* transferred: the event has been handed over and the run goes on
C37_Witness ==
    /\ event.name = "on_created" /\ ~event.e.is_directory /\ Affected = P_upper
    /\ calls = 2
    /\ pc[1] = "refresh" /\ file_path[1] = P_a /\ syncing = {P_a}
    /\ pc[2] = "idle"


(***************************************************************************)
(* Faults that are not retried                                             *)
(***************************************************************************)
\* the thread is in the retry wrapper: at an attempt or at the wait before one
InWrapper(t) == pc[t] \in {"rsync", "backoff"}

\* C38: only a failed exit or a timeout of an attempt is retried. The wait
\* before a retry is entered only from an attempt, with CalledProcessError or
\* TimeoutExpired as the failure caught; a step that takes the run out of
\* the wrapper with any other fault goes straight to the finally clause,
\* with no sleep added, no attempt added and no activation made; from there
\* the run makes no further attempt and ends with that fault as its outcome.
C38_OtherFaultsNotRetried ==
    /\ [][\A t \in Threads :
            /\ (pc[t] # "backoff" /\ pc'[t] = "backoff")
                    => pc[t] = "rsync" /\ loc'[t].e \in Transient
            /\ (InWrapper(t) /\ loc'[t].outcome = "unexpected")
                    => /\ pc'[t] = "fin_lock"
                       /\ loc'[t].sleeps = loc[t].sleeps
                       /\ loc'[t].attempt = loc[t].attempt
                       /\ loc'[t].activations = 0
            /\ (pc[t] \in {"fin_lock", "fin_in"} /\ loc[t].outcome = "unexpected")
                    => /\ pc'[t] \in {"fin_lock", "fin_in", "idle", "h_exit"}
                       /\ loc'[t].outcome = "unexpected"
                       /\ loc'[t].activations = 0]_vars
    /\ [](\A t \in Threads : loc[t].e \in Transient \cup {"none"})

\* the first attempt failed with a fault that is not caught by the wrapper:
\* the run is over with that outcome, after one attempt and no wait
C38_Witness ==
    \E t \in Threads :
        /\ pc[t] = "fin_in" /\ loc[t].outcome = "unexpected"
        /\ loc[t].attempt = 1 /\ loc[t].sleeps = <<>>


(***************************************************************************)
(* The in-flight set and its owners                                        *)
(***************************************************************************)
\* the sync_file invocations that have inserted p and not yet discarded it
Owners(p) == {t \in Threads : InFlight(t) /\ file_path[t] = p}

\* C39: the in-flight set holds exactly the paths owned by a running
\* invocation of sync_file. A path is in the set if and only if exactly one
\* invocation has inserted it and has not yet executed its discard, and no
\* path has two such invocations; so the set has at most as many elements as
\* there are such invocations, and a thread that has left sync_file has left
\* no path of its own in the set.
C39_SetIsItsOwners ==
    /\ syncing \subseteq Paths
    /\ \A p \in Paths :
        /\ p \in syncing <=> Cardinality(Owners(p)) = 1
        /\ Cardinality(Owners(p)) <= 1
    /\ Cardinality(syncing) <= Cardinality({t \in Threads : InFlight(t)})
    /\ \A t \in Threads :
        (~InFlight(t) /\ file_path[t] \in syncing)
            => \E u \in Threads : u # t /\ Owners(file_path[t]) = {u}

\* two runs own one path each, one of them about to discard its own
C39_Witness ==
    \E t, u \in Threads :
        /\ pc[t] = "fin_in" /\ file_path[t] = P_a
        /\ pc[u] = "rsync" /\ file_path[u] = P_sub
        /\ syncing = {P_a, P_sub}

====
